---- MODULE Spec2Model ----
(***************************************************************************)
(* Model of llm_sentiment.py: the sentiment classifier client              *)
(* (get_llm_sentiment: request, retry, sleep, response parsing) and the    *)
(* module-level batch driver (read rows, classify, collect, write).        *)
(*                                                                         *)
(* Texts that the code inspects character by character (the endpoint's     *)
(* response text) are sequences of one-character strings; texts the code   *)
(* only passes around (ProductID, ReviewText) are plain strings.           *)
(***************************************************************************)
EXTENDS Integers, Sequences, FiniteSets, TLC

(* ------------------------------ bounds --------------------------------- *)
MaxRows == 2
MaxRetries == 3
MaxPieces == 3

(* ------------------------- program constants --------------------------- *)
DEFAULT_RETRIES == 3
DEFAULT_DELAY == 5

(* --------------------------- characters -------------------------------- *)
LowerLetters == <<"a","b","c","d","e","f","g","h","i","j","k","l","m","n","o","p","q","r","s","t","u","v","w","x","y","z">>

UpperLetters == <<"A","B","C","D","E","F","G","H","I","J","K","L","M","N","O","P","Q","R","S","T","U","V","W","X","Y","Z">>

Whitespace == {" ", "\t", "\n"}

IndexIn(c, letters) == CHOOSE k \in 1..Len(letters) : letters[k] = c

LowerSet == {LowerLetters[k] : k \in 1..Len(LowerLetters)}

UpperSet == {UpperLetters[k] : k \in 1..Len(UpperLetters)}

UpperOf == [c \in LowerSet |-> UpperLetters[IndexIn(c, LowerLetters)]]

LowerOf == [c \in UpperSet |-> LowerLetters[IndexIn(c, UpperLetters)]]

IsLower(c) == c \in LowerSet

IsUpper(c) == c \in UpperSet

IsCased(c) == IsLower(c) \/ IsUpper(c)

ToUpper(c) == IF IsLower(c) THEN UpperOf[c] ELSE c

ToLower(c) == IF IsUpper(c) THEN LowerOf[c] ELSE c

(* str.strip(): drop leading and trailing whitespace *)
RECURSIVE LStrip(_)
LStrip(s) == IF s # <<>> /\ Head(s) \in Whitespace THEN LStrip(Tail(s)) ELSE s

RECURSIVE RStrip(_)
RStrip(s) == IF s # <<>> /\ s[Len(s)] \in Whitespace THEN RStrip(SubSeq(s, 1, Len(s) - 1)) ELSE s

Strip(s) == RStrip(LStrip(s))

(* str.title(): a cased character is upper-cased when the character before *)
(* it is not cased (or there is none), lower-cased when it is.             *)
TitleKeepRest(s) == [k \in 1..Len(s) |-> IF IsCased(s[k]) /\ ~(k > 1 /\ IsCased(s[k-1])) THEN ToUpper(s[k]) ELSE s[k]]

Title(s) == [k \in 1..Len(s) |-> IF IsCased(s[k]) THEN (IF k > 1 /\ IsCased(s[k-1]) THEN ToLower(s[k]) ELSE ToUpper(s[k])) ELSE s[k]]

(* Python's  sub in s  *)
Contains(sub, s) == \E k \in 1..(Len(s) - Len(sub) + 1) : SubSeq(s, k, k + Len(sub) - 1) = sub

(* ----------------------------- labels ---------------------------------- *)
POSITIVE == <<"P","o","s","i","t","i","v","e">>

NEGATIVE == <<"N","e","g","a","t","i","v","e">>

NEUTRAL == <<"N","e","u","t","r","a","l">>

Labels == {"Positive", "Negative", "Neutral"}

PARSE_FAILED == "Error: Parse Failed"

API_FAILED == "Error: API Failed"

MAX_RETRIES == "Error: Max Retries"

Spelling(label) == CASE label = "Positive" -> POSITIVE [] label = "Negative" -> NEGATIVE [] label = "Neutral" -> NEUTRAL

(* lines 62-64: the title-cased text is itself one of the three labels *)
IsExactLabel(s) == s \in {POSITIVE, NEGATIVE, NEUTRAL}

ExactLabel(s) == CHOOSE label \in Labels : Spelling(label) = s

(* lines 69-73: keyword search in the title-cased text, fixed order *)
FallbackLabelNegativeFirst(s) == IF Contains(NEGATIVE, s) THEN "Negative" ELSE IF Contains(POSITIVE, s) THEN "Positive" ELSE IF Contains(NEUTRAL, s) THEN "Neutral" ELSE PARSE_FAILED

FallbackLabel(s) == IF Contains(POSITIVE, s) THEN "Positive" ELSE IF Contains(NEGATIVE, s) THEN "Negative" ELSE IF Contains(NEUTRAL, s) THEN "Neutral" ELSE PARSE_FAILED

(* lines 56-73: the value returned for a response whose 'response' field   *)
(* is the string text                                                      *)
ParseSentiment(text) == LET s == Title(Strip(text)) IN IF IsExactLabel(s) THEN ExactLabel(s) ELSE FallbackLabel(s)

(* ------------------------- endpoint outcomes --------------------------- *)
(* What one requests.post (line 47) can produce: a transport exception or  *)
(* a response with a status code and a body.  A body is text that is not   *)
(* JSON, a JSON value that is not an object, or a JSON object whose        *)
(* 'response' member is missing, not a string, or a string.                *)
NoText == <<>>

NoBody == [json |-> "none", field |-> "none", text |-> NoText]

NotJsonBody == [json |-> "invalid", field |-> "none", text |-> NoText]

NotObjectBody == [json |-> "array", field |-> "none", text |-> NoText]

ObjectBody(field, text) == [json |-> "object", field |-> field, text |-> text]

TextBody(text) == ObjectBody("string", text)

ResponseTexts == {
    POSITIVE,
    <<"N","E","G","A","T","I","V","E">>,
    <<" ","n","e","u","t","r","a","l","\n">>,
    <<"I"," ","t","h","i","n","k"," ","t","h","i","s"," ","i","s"," ","P","o","s","i","t","i","v","e"," ","o","v","e","r","a","l","l">>,
    <<"n","o","t"," ","p","o","s","i","t","i","v","e",","," ","i","t","'","s"," ","n","e","g","a","t","i","v","e">>,
    <<"M","e","h">>,
    <<>> }

DeliveredBodies == {NotJsonBody, NotObjectBody, ObjectBody("missing", NoText), ObjectBody("number", NoText)} \cup {TextBody(t) : t \in ResponseTexts}

StatusCodes == {200, 300, 404, 500}

TransportError(kind) == [kind |-> kind, status |-> 0, body |-> NoBody]

Response(status, body) == [kind |-> "Response", status |-> status, body |-> body]

(* an error status carries an error page, whose body is never read; a 3xx  *)
(* response that is not a followed redirect may carry any body             *)
BodiesOf(status) == IF status >= 400 THEN {NotJsonBody} ELSE IF status >= 300 THEN {NotJsonBody, TextBody(POSITIVE), TextBody(<<>>)} ELSE DeliveredBodies

Outcomes == {TransportError("ConnectionError"), TransportError("Timeout")} \cup UNION {{Response(st, b) : b \in BodiesOf(st)} : st \in StatusCodes}

Is2xx(o) == o.kind = "Response" /\ o.status >= 200 /\ o.status < 300

(* line 53: raise_for_status raises HTTPError for 4xx and 5xx only *)
RaisesForStatus(o) == o.kind = "Response" /\ o.status >= 400 /\ o.status < 600

(* ------------------------------ state ---------------------------------- *)
VARIABLES
    json_error_is_request_exception, \* the installed requests: does response.json() raise a RequestException
    input,            \* the input file: exists, fieldnames, rows
    pc,               \* position of the module-level script
    row_i,            \* number of rows the reader has yielded
    results,          \* the results list (line 88)
    outfile,          \* the output file
    aborted_by,       \* the exception and stage that made the script exit()
    calls,            \* every get_llm_sentiment call: its text and its returned value
    cpc,              \* position inside get_llm_sentiment
    review_text, retries, delay,   \* the call's arguments
    attempt,          \* the for loop's variable (line 44)
    events,           \* the requests sent and sleeps made by the current call
    ret,              \* the value the call returned
    exc,              \* the exception that left the call
    llm_response_text,\* a response text given to the parsing code alone
    parsed            \* what the parsing code made of it

vars == <<json_error_is_request_exception, input, pc, row_i, results, outfile, aborted_by, calls, cpc, review_text, retries, delay, attempt, events, ret, exc, llm_response_text, parsed>>

driverVars == <<input, pc, row_i, results, outfile, aborted_by>>

callVars == <<cpc, review_text, retries, delay, attempt, events, ret, exc>>

parseVars == <<llm_response_text, parsed>>

NoValue == "(none)"

RequestEvent(o) == [ev |-> "request", outcome |-> o, secs |-> 0]

SleepEvent(d) == [ev |-> "sleep", outcome |-> TransportError("none"), secs |-> d]

(* ------------------------ get_llm_sentiment ---------------------------- *)
(* lines 75-82: is the exception of this attempt caught as a               *)
(* RequestException?  A body that is not JSON makes response.json() raise  *)
(* JSONDecodeError, which is a RequestException in some releases of        *)
(* requests and a plain ValueError in others.                              *)
IsRequestException(o) == \/ o.kind # "Response"
                         \/ RaisesForStatus(o)
                         \/ (o.body.json = "invalid" /\ json_error_is_request_exception)

(* lines 55-56: exceptions that no except clause of the function catches *)
UncaughtException(o) == IF o.body.json = "invalid" THEN "ValueError"
                        ELSE IF o.body.json # "object" \/ o.body.field = "number" THEN "AttributeError"
                        ELSE NoValue

(* line 56: response_data.get('response', '') *)
ResponseField(o) == IF o.body.field = "missing" THEN <<>> ELSE o.body.text

(* line 77 *)
RetryAlways(a, n) == a < n

RetryAgain(a, n) == a < n - 1

(* lines 24-44: entering the function and the for loop *)
Enter(text, n, d) ==
    /\ review_text' = text
    /\ retries' = n
    /\ delay' = d
    /\ attempt' = 0
    /\ events' = <<>>
    /\ exc' = NoValue
    /\ cpc' = IF n > 0 THEN "request" ELSE "returned"
    /\ ret' = IF n > 0 THEN NoValue ELSE MAX_RETRIES
    /\ calls' = Append(calls, [text |-> text, ret |-> IF n > 0 THEN NoValue ELSE MAX_RETRIES])

Returns(value) == [cpc |-> "returned", ret |-> value, exc |-> NoValue]

Raises(exception) == [cpc |-> "raised", ret |-> NoValue, exc |-> exception]

(* lines 45-82: what one iteration of the loop ends in *)
AttemptResult(o) ==
    IF IsRequestException(o)
      THEN IF RetryAgain(attempt, retries)
             THEN [cpc |-> "sleep", ret |-> NoValue, exc |-> NoValue]
             ELSE Returns(API_FAILED)
      ELSE IF UncaughtException(o) # NoValue
             THEN Raises(UncaughtException(o))
             ELSE Returns(ParseSentiment(ResponseField(o)))

(* lines 45-82: one iteration of the loop up to its return, raise or sleep *)
Request ==
    /\ cpc = "request"
    /\ \E o \in Outcomes :
         LET r == AttemptResult(o) IN
           /\ events' = Append(events, RequestEvent(o))
           /\ cpc' = r.cpc
           /\ ret' = r.ret
           /\ exc' = r.exc
           /\ calls' = [calls EXCEPT ![Len(calls)].ret = r.ret]
    /\ UNCHANGED <<review_text, retries, delay, attempt>>
    /\ UNCHANGED json_error_is_request_exception
    /\ UNCHANGED driverVars
    /\ UNCHANGED parseVars

(* lines 79, 44, 84: time.sleep(delay), then the next iteration; line 84   *)
(* is where the loop would end without a return                            *)
Sleep ==
    /\ cpc = "sleep"
    /\ events' = Append(events, SleepEvent(delay))
    /\ attempt' = attempt + 1
    /\ cpc' = IF attempt + 1 < retries THEN "request" ELSE "returned"
    /\ ret' = IF attempt + 1 < retries THEN NoValue ELSE MAX_RETRIES
    /\ calls' = IF attempt + 1 < retries THEN calls ELSE [calls EXCEPT ![Len(calls)].ret = MAX_RETRIES]
    /\ UNCHANGED <<review_text, retries, delay, exc>>
    /\ UNCHANGED json_error_is_request_exception
    /\ UNCHANGED driverVars
    /\ UNCHANGED parseVars

(* the frame of a call that is not running *)
NoCall ==
    /\ cpc' = "idle"
    /\ review_text' = NoValue
    /\ retries' = 0
    /\ delay' = 0
    /\ attempt' = 0
    /\ events' = <<>>
    /\ ret' = NoValue
    /\ exc' = NoValue

(* --------------------------- batch driver ------------------------------ *)
PRODUCT_ID == "ProductID"

REVIEW_TEXT == "ReviewText"

(* a row the reader yields: complete, or short of its ReviewText cell      *)
(* (the DictReader fills None in, and line 102 slices it)                  *)
Row(id, text) == [kind |-> "row", ProductID |-> id, ReviewText |-> text]

ShortRow(id) == [kind |-> "short", ProductID |-> id, ReviewText |-> NoValue]

Rows == {Row("P1", "Great product"), Row("P2", "Broke after a day"), ShortRow("P3")}

RowSeqs == UNION {[1..n -> Rows] : n \in 0..MaxRows}

Headers == {{PRODUCT_ID}, {REVIEW_TEXT, "Rating"}, {PRODUCT_ID, REVIEW_TEXT, "Rating"}}

MissingFile == [exists |-> FALSE, fieldnames |-> {}, rows |-> <<>>]

Inputs == {MissingFile} \cup {[exists |-> TRUE, fieldnames |-> h, rows |-> r] : h \in Headers, r \in RowSeqs}

NotWritten == [written |-> FALSE, fieldnames |-> <<>>, rows |-> <<>>]

NotAborted == [exception |-> NoValue, stage |-> NoValue]

(* lines 112-120: every except clause prints and calls exit() *)
Abort(exception, stage) ==
    /\ pc' = "aborted"
    /\ aborted_by' = [exception |-> exception, stage |-> stage]

(* lines 92-96 *)
OpenInput ==
    /\ pc = "start"
    /\ IF ~input.exists
         THEN Abort("FileNotFoundError", "open")
         ELSE IF PRODUCT_ID \notin input.fieldnames \/ REVIEW_TEXT \notin input.fieldnames
                THEN Abort("ValueError", "columns")
                ELSE pc' = "rows" /\ aborted_by' = aborted_by
    /\ UNCHANGED <<input, row_i, results, outfile>>
    /\ UNCHANGED <<json_error_is_request_exception, calls>>
    /\ UNCHANGED callVars
    /\ UNCHANGED parseVars

(* lines 98-104: the reader's next row, up to the call of get_llm_sentiment *)
ReadRow ==
    /\ pc = "rows"
    /\ cpc = "idle"
    /\ IF row_i = Len(input.rows)
         THEN /\ pc' = "output"
              /\ UNCHANGED <<row_i, aborted_by, calls>>
              /\ UNCHANGED callVars
         ELSE /\ row_i' = row_i + 1
              /\ IF input.rows[row_i + 1].kind = "short"
                   THEN /\ Abort("TypeError", "read")
                        /\ UNCHANGED calls
                        /\ UNCHANGED callVars
                   ELSE /\ Enter(input.rows[row_i + 1].ReviewText, DEFAULT_RETRIES, DEFAULT_DELAY)
                        /\ UNCHANGED <<pc, aborted_by>>
    /\ UNCHANGED <<input, results, outfile>>
    /\ UNCHANGED json_error_is_request_exception
    /\ UNCHANGED parseVars

(* lines 106-110 *)
PrependResult(list, record) == <<record>> \o list

AppendResult(list, record) == Append(list, record)

(* lines 104-110: the call has returned *)
StoreResult ==
    /\ pc = "rows"
    /\ cpc = "returned"
    /\ results' = AppendResult(results, [ProductID |-> input.rows[row_i].ProductID, ReviewText |-> input.rows[row_i].ReviewText, Sentiment |-> ret])
    /\ NoCall
    /\ UNCHANGED <<input, pc, row_i, outfile, aborted_by>>
    /\ UNCHANGED <<json_error_is_request_exception, calls>>
    /\ UNCHANGED parseVars

(* lines 104, 115-120: an exception leaves the call and reaches the        *)
(* except clauses of the reading block                                     *)
PropagateException ==
    /\ pc = "rows"
    /\ cpc = "raised"
    /\ Abort(exc, "classify")
    /\ UNCHANGED <<input, row_i, results, outfile>>
    /\ UNCHANGED <<json_error_is_request_exception, calls>>
    /\ UNCHANGED callVars
    /\ UNCHANGED parseVars

(* lines 123-144: the file is written when there are results; an IOError   *)
(* is reported and leaves no file                                          *)
WriteOutput ==
    /\ pc = "output"
    /\ pc' = "done"
    /\ IF results # <<>>
         THEN \E ok \in BOOLEAN :
                outfile' = IF ok THEN [written |-> TRUE, fieldnames |-> <<PRODUCT_ID, REVIEW_TEXT, "Sentiment">>, rows |-> results] ELSE NotWritten
         ELSE outfile' = outfile
    /\ UNCHANGED <<input, row_i, results, aborted_by>>
    /\ UNCHANGED <<json_error_is_request_exception, calls>>
    /\ UNCHANGED callVars
    /\ UNCHANGED parseVars

InitCall ==
    /\ cpc = "idle"
    /\ review_text = NoValue
    /\ retries = 0
    /\ delay = 0
    /\ attempt = 0
    /\ events = <<>>
    /\ ret = NoValue
    /\ exc = NoValue
    /\ calls = <<>>

InitDriver(position, in) ==
    /\ input = in
    /\ pc = position
    /\ row_i = 0
    /\ results = <<>>
    /\ outfile = NotWritten
    /\ aborted_by = NotAborted

Init ==
    /\ json_error_is_request_exception \in BOOLEAN
    /\ \E in \in Inputs : InitDriver("start", in)
    /\ InitCall
    /\ llm_response_text = NoText
    /\ parsed = NoValue

Next == OpenInput \/ ReadRow \/ Request \/ Sleep \/ StoreResult \/ PropagateException \/ WriteOutput

Spec == Init /\ [][Next]_vars

(* ------------------- one call with any arguments ----------------------- *)
ReviewTexts == {"Great product", "Broke after a day"}

Delays == {0, DEFAULT_DELAY}

Invoke ==
    /\ pc = "caller"
    /\ cpc = "idle"
    /\ calls = <<>>
    /\ \E text \in ReviewTexts, n \in 0..MaxRetries, d \in Delays : Enter(text, n, d)
    /\ UNCHANGED json_error_is_request_exception
    /\ UNCHANGED driverVars
    /\ UNCHANGED parseVars

InitCaller ==
    /\ json_error_is_request_exception \in BOOLEAN
    /\ InitDriver("caller", MissingFile)
    /\ InitCall
    /\ llm_response_text = NoText
    /\ parsed = NoValue

NextCall == Invoke \/ Request \/ Sleep

SpecCall == InitCaller /\ [][NextCall]_vars

(* --------------- the parsing code on its own (lines 56-73) ------------- *)
AllLower(s) == [k \in 1..Len(s) |-> ToLower(s[k])]

AllUpper(s) == [k \in 1..Len(s) |-> ToUpper(s[k])]

Pieces == {POSITIVE, AllLower(POSITIVE), AllUpper(NEGATIVE), AllLower(NEGATIVE), AllUpper(NEUTRAL), AllLower(NEUTRAL), <<"M","e","h">>, <<" ">>, <<",">>, <<"u","n">>, <<"2">>}

RECURSIVE Flatten(_)
Flatten(ps) == IF ps = <<>> THEN <<>> ELSE Head(ps) \o Flatten(Tail(ps))

Texts == UNION {{Flatten(ps) : ps \in [1..n -> Pieces]} : n \in 0..MaxPieces}

ParseResponse ==
    /\ pc = "parser"
    /\ parsed = NoValue
    /\ parsed' = ParseSentiment(llm_response_text)
    /\ UNCHANGED llm_response_text
    /\ UNCHANGED <<json_error_is_request_exception, calls>>
    /\ UNCHANGED driverVars
    /\ UNCHANGED callVars

InitParse ==
    /\ json_error_is_request_exception = TRUE
    /\ InitDriver("parser", MissingFile)
    /\ InitCall
    /\ llm_response_text \in Texts
    /\ parsed = NoValue

NextParse == ParseResponse

SpecParse == InitParse /\ [][NextParse]_vars

(* ============================ properties =============================== *)
CallEnded == cpc \in {"returned", "raised"}

IsRequest(k) == events[k].ev = "request"

RequestCount == Cardinality({k \in 1..Len(events) : IsRequest(k)})

SleepCount == Cardinality({k \in 1..Len(events) : ~IsRequest(k)})

(* request, sleep(delay), request, ..., request *)
RequestsSeparatedBySleeps == \A k \in 1..Len(events) : IF k % 2 = 1 THEN IsRequest(k) ELSE events[k] = SleepEvent(delay)

ReturnValues == Labels \cup {PARSE_FAILED, API_FAILED}

(* C1: whenever get_llm_sentiment returns, for any text, any endpoint      *)
(* outcomes and any retries (0 included), the value is one of Positive,    *)
(* Negative, Neutral, 'Error: Parse Failed', 'Error: API Failed'.          *)
C1_ClosedEnumeration == cpc = "returned" => ret \in ReturnValues

(* C2: no exception ever leaves get_llm_sentiment. *)
C2_NeverThrows == cpc # "raised"

C3_FailsNon2xx(o) == o.kind # "Response" \/ ~Is2xx(o)

(* C3 as stated: when every attempt fails by a transport error, a timeout  *)
(* or a non-2xx status, a call with retries = n >= 1 sends exactly n       *)
(* requests, sleeps delay exactly n-1 times, each sleep between two        *)
(* consecutive requests, and returns 'Error: API Failed'.                  *)
C3_RetriesExhaustedNon2xx ==
    (cpc = "returned" /\ retries >= 1 /\ \A k \in 1..Len(events) : IsRequest(k) => C3_FailsNon2xx(events[k].outcome))
      => /\ ret = API_FAILED
         /\ RequestCount = retries
         /\ SleepCount = retries - 1
         /\ RequestsSeparatedBySleeps

C3_Fails(o) == o.kind # "Response" \/ (o.status >= 400 /\ o.status <= 599)

C3_AllAttemptsFail == \A k \in 1..Len(events) : IsRequest(k) => C3_Fails(events[k].outcome)

(* C3 (amended): when every attempt fails by a transport error, a timeout  *)
(* or a 4xx or 5xx status, a call with retries = n >= 1 sends exactly n    *)
(* requests, sleeps delay exactly n-1 times, each sleep between two        *)
(* consecutive requests, and returns 'Error: API Failed'.                  *)
C3_RetriesExhausted ==
    (CallEnded /\ retries >= 1 /\ C3_AllAttemptsFail)
      => /\ cpc = "returned"
         /\ ret = API_FAILED
         /\ RequestCount = retries
         /\ SleepCount = retries - 1
         /\ RequestsSeparatedBySleeps

C3_Witness ==
    /\ cpc = "returned"
    /\ retries = 3
    /\ delay = DEFAULT_DELAY
    /\ C3_AllAttemptsFail
    /\ ret = API_FAILED
    /\ Len(events) = 5
    /\ events[1].outcome.kind = "Timeout"
    /\ events[3].outcome.kind = "ConnectionError"
    /\ events[5].outcome.kind = "Response"

(* text is label in some letter case, with whitespace around it *)
OccursAt(label, text, k) == k + Len(Spelling(label)) - 1 <= Len(text) /\ AllLower(SubSeq(text, k, k + Len(Spelling(label)) - 1)) = AllLower(Spelling(label))

TrimmedIs(label, text) == \E k \in 1..Len(text) :
    /\ OccursAt(label, text, k)
    /\ \A j \in 1..Len(text) : (j < k \/ j >= k + Len(Spelling(label))) => text[j] \in Whitespace

(* C4: a response text that, trimmed of surrounding whitespace, is one of  *)
(* the three labels in any letter case is answered by that label.          *)
C4_ExactLabelAnyCase == parsed # NoValue => \A label \in Labels : TrimmedIs(label, llm_response_text) => parsed = label

C4_Witness ==
    /\ parsed = "Negative"
    /\ llm_response_text = <<" ">> \o AllUpper(NEGATIVE) \o <<" ">>

OccursAnywhere(label, text) == \E k \in 1..Len(text) : OccursAt(label, text, k)

OccursAtWordStart(label, text) == \E k \in 1..Len(text) : OccursAt(label, text, k) /\ (k = 1 \/ ~IsCased(text[k-1]))

NotExactly(text) == \A label \in Labels : ~TrimmedIs(label, text)

(* C5 as stated: a response text that is not exactly a label is answered   *)
(* by the first of Positive, Negative, Neutral that it contains as a       *)
(* substring in any letter case, and by 'Error: Parse Failed' only when it *)
(* contains none.                                                          *)
C5_FirstLabelContained ==
    (parsed # NoValue /\ NotExactly(llm_response_text))
      => parsed = IF OccursAnywhere("Positive", llm_response_text) THEN "Positive"
                  ELSE IF OccursAnywhere("Negative", llm_response_text) THEN "Negative"
                  ELSE IF OccursAnywhere("Neutral", llm_response_text) THEN "Neutral"
                  ELSE PARSE_FAILED

(* C5 (amended): a response text that is not exactly a label is answered   *)
(* by the first of Positive, Negative, Neutral that occurs in it, in any   *)
(* letter case, at a place not directly after a letter, and by             *)
(* 'Error: Parse Failed' only when none occurs so.                         *)
C5_FirstLabelAtWordStart ==
    (parsed # NoValue /\ NotExactly(llm_response_text))
      => parsed = IF OccursAtWordStart("Positive", llm_response_text) THEN "Positive"
                  ELSE IF OccursAtWordStart("Negative", llm_response_text) THEN "Negative"
                  ELSE IF OccursAtWordStart("Neutral", llm_response_text) THEN "Neutral"
                  ELSE PARSE_FAILED

C5_Witness ==
    /\ parsed = "Positive"
    /\ llm_response_text = AllLower(NEUTRAL) \o <<",">> \o AllLower(POSITIVE)

C6_Malformed(body) == body.json = "invalid" \/ body.field = "missing" \/ (body.field = "string" /\ body.text \in {<<>>, <<"M","e","h">>})

(* C6: a 2xx response that is empty or malformed (not JSON, no 'response'  *)
(* field, empty text, a text naming no label) ends the call at once with   *)
(* 'Error: Parse Failed': no retry, no 'Error: API Failed'.                *)
C6_MalformedIsParseFailure ==
    \A k \in 1..Len(events) :
      (IsRequest(k) /\ Is2xx(events[k].outcome) /\ C6_Malformed(events[k].outcome.body))
        => k = Len(events) /\ cpc = "returned" /\ ret = PARSE_FAILED

C7_RowOf(i) == [ProductID |-> input.rows[i].ProductID, ReviewText |-> input.rows[i].ReviewText, Sentiment |-> calls[i].ret]

(* C7: a run that does not abort calls get_llm_sentiment once per row, in  *)
(* input order; results, and the file when written, hold one row per input *)
(* row, in order, with that row's ProductID and ReviewText and the i-th    *)
(* call's returned label.                                                  *)
C7_OneResultPerRowInOrder ==
    pc = "done"
      => /\ Len(calls) = Len(input.rows)
         /\ Len(results) = Len(input.rows)
         /\ \A i \in 1..Len(input.rows) : calls[i].text = input.rows[i].ReviewText /\ results[i] = C7_RowOf(i)
         /\ outfile.written => (Len(outfile.rows) = Len(input.rows) /\ \A i \in 1..Len(input.rows) : outfile.rows[i] = C7_RowOf(i))

C7_Witness ==
    /\ pc = "done"
    /\ outfile.written
    /\ Len(results) = 2
    /\ results[1].ProductID = "P2"
    /\ results[2].ProductID = "P1"
    /\ results[1].Sentiment = API_FAILED
    /\ results[2].Sentiment = "Neutral"

(* C8: a failure while classifying a record never aborts the batch. *)
C8_ClassifyingNeverAborts == aborted_by.stage # "classify"

(* C9: when the run aborts, get_llm_sentiment has not been called. *)
C9_AbortOnlyBeforeCalls == pc = "aborted" => calls = <<>>

(* C10: a call makes at most retries requests; a 2xx response is the last  *)
(* event of its call, and the call returns what that response's text       *)
(* parses to.                                                              *)
C10_StopsAtFirst2xx ==
    /\ RequestCount <= retries
    /\ \A k \in 1..Len(events) :
         (IsRequest(k) /\ Is2xx(events[k].outcome))
           => k = Len(events) /\ cpc = "returned" /\ ret = ParseSentiment(ResponseField(events[k].outcome))

====
